---- MODULE Spec2Model ----
(***************************************************************************)
(* Model of src/src/caws/auth.ts:                                          *)
(*   - pollTransformationJob (the job-polling loop) with throwIfCancelled, *)
(*   - CawsAuthStorage and CawsAuthenticationProvider (createAccount,      *)
(*     login, createSession, deleteSession).                               *)
(* Each action is one run-to-completion segment of the JavaScript code:    *)
(* the synchronous code between two awaits.  What the host and the remote  *)
(* services answer is chosen nondeterministically.                         *)
(***************************************************************************)
EXTENDS Integers, Sequences, FiniteSets, TLC

(***************************************************************************)
(* Bounds of the model.                                                    *)
(***************************************************************************)
\* transformationJobPollingIntervalSeconds ranges over 1..MaxInterval
MaxInterval == 2
\* transformationJobTimeoutSeconds ranges over 0..MaxTimeout
MaxTimeout == 3

\* Number of createAccount / createSession invocations in a behaviour
NumCalls == 2
\* Largest number of workspace folders
MaxFolders == 2

\* Account ids / usernames, and session cookies.
Users == {"alice", "bob"}
Cookies == {"c1", "c2"}
Calls == 1..NumCalls

\* Job statuses the remote service can report.
Statuses == {"PLANNED", "FAILED", "TRANSFORMING"}

VARIABLES
    \* ---- pollTransformationJob ----
    validStates,     \* the validStates argument
    failureStates,   \* CodeWhispererConstants.failureStates
    interval,        \* CodeWhispererConstants.transformationJobPollingIntervalSeconds
    timeoutSecs,     \* CodeWhispererConstants.transformationJobTimeoutSeconds
    cancelled,       \* transformByQState.isCancelled()
    pollPc,          \* position of the poll
    status,          \* local `status`
    timer,           \* local `timer`
    response,        \* outcome of the most recent status query: a status, "ERROR", "" before any
    queries,         \* number of status queries issued
    sleeps,          \* number of sleeps started
    \* ---- CawsAuthStorage / CawsAuthenticationProvider ----
    memento,         \* the 'caws/users' memento value: user -> metadata
    secrets,         \* the secret store: user -> cookie ("" when nothing is stored)
    sessions,        \* this.sessions: session id -> Session
    sessionCounter,  \* this.sessionCounter
    events,          \* onDidChangeSessions events fired so far
    calls,           \* the createAccount / createSession invocations
    \* ---- getValidModules ----
    folders,                \* vscode.workspace.workspaceFolders: "undefined" or a sequence
    folderIdx,              \* position of the for loop
    validModules,           \* local `validModules` (folders by index)
    containsSupportedJava,  \* local flag
    containsPomXml,         \* local flag
    sourceJDKVersion,       \* transformByQState's source JDK version
    gvmPc,                  \* position of getValidModules
    \* ---- EnvironmentSettingsWizard.run ----
    initState,       \* this.initState
    curr,            \* local `curr`
    lastItem,        \* local `lastItem`
    accepted,        \* initState with each field replaced by the last edit its prompt accepted
    wizPc,           \* position of run
    wizResult,       \* what run resolved with
    \* ---- uploadPayload ----
    fileContent,     \* content of the payload file ("ENOENT": it cannot be read)
    upPc,            \* position of uploadPayload
    urlRequest,      \* contentChecksum of the createUploadUrl request ("" before it)
    urlResponse,     \* the CreateUploadUrlResponse (NoResponse before it)
    putRequest,      \* the PUT issued by uploadArtifactToS3 (NoPut before it)
    putStatus,       \* status of the completed PUT ("" before it completes)
    upResult         \* what uploadPayload resolved with ("" before)

pollVars == <<validStates, failureStates, interval, timeoutSecs, cancelled,
              pollPc, status, timer, response, queries, sleeps>>

authVars == <<memento, secrets, sessions, sessionCounter, events, calls>>

gvmVars == <<folders, folderIdx, validModules, containsSupportedJava, containsPomXml,
             sourceJDKVersion, gvmPc>>

wizVars == <<initState, curr, lastItem, accepted, wizPc, wizResult>>

upVars == <<fileContent, upPc, urlRequest, urlResponse, putRequest, putStatus, upResult>>

\* Everything but the polling loop and the authentication provider.
restVars == <<gvmVars, wizVars, upVars>>

vars == <<pollVars, authVars, restVars>>

(***************************************************************************)
(* pollTransformationJob                                                   *)
(***************************************************************************)
PollSettled == {"returned", "threwStopped", "threwFailed", "threwTimeout", "threwQueryError"}

\* (mutation: the cancellation check is skipped)
throwIfCancelled_Mut == FALSE

\* throwIfCancelled: true when it throws TransformByQStoppedError
throwIfCancelled == cancelled

\* (mutation: anything that is not a failure counts as valid)
IsValid_Mut(s) == s \notin failureStates

\* validStates.includes(status)
IsValid(s) == s \in validStates

\* (mutation: failure states are not recognised)
IsFailure_Mut(s) == FALSE

\* CodeWhispererConstants.failureStates.includes(status)
IsFailure(s) == s \in failureStates

\* (mutation: the timeout allows one more interval)
TimedOut_Mut(t) == t > timeoutSecs + interval

\* timer > CodeWhispererConstants.transformationJobTimeoutSeconds
TimedOut(t) == t > timeoutSecs

\* (mutation: a failed query is swallowed and the loop goes on)
OnQueryError_Mut == "loop"

\* A rejected status query: no try/catch in the loop, the rejection leaves
\* pollTransformationJob.
OnQueryError == "threwQueryError"

\* Cap on the query counter; the loop itself never reaches it.
QueryCap == MaxTimeout + 3

\* A call slot before it is used.
NoCall == [op |-> "none", pc |-> "idle", account |-> "", cookie |-> "",
           person |-> "", err |-> "", sid |-> 0, bg |-> "none"]

\* The provider right after construction, over an empty storage.
AuthStart ==
    /\ memento = [u \in Users |-> "absent"]
    /\ secrets = [u \in Users |-> ""]
    /\ sessions = <<>>
    /\ sessionCounter = 0
    /\ events = {}
    /\ calls = [p \in Calls |-> NoCall]

\* getValidModules, the wizard and uploadPayload not running.
GvmIdle ==
    /\ folders = [defined |-> FALSE, list |-> <<>>]
    /\ folderIdx = 0
    /\ validModules = <<>>
    /\ containsSupportedJava = FALSE
    /\ containsPomXml = FALSE
    /\ sourceJDKVersion = ""
    /\ gvmPc = "idle"

\* A settings form with nothing in it.
NoForm == [instanceType |-> "", inactivityTimeoutMinutes |-> "", persistentStorage |-> ""]

WizIdle ==
    /\ initState = NoForm
    /\ curr = NoForm
    /\ lastItem = "undefined"
    /\ accepted = NoForm
    /\ wizPc = "idle"
    /\ wizResult = [defined |-> FALSE, form |-> NoForm]

\* No CreateUploadUrlResponse yet, and no PUT issued yet.
NoResponse == [uploadId |-> "", uploadUrl |-> "", kmsKeyArn |-> ""]

NoHeaders == [checksum |-> "", contentType |-> "", sse |-> "", kmsKeyId |-> ""]

NoPut == [url |-> "", headers |-> NoHeaders, body |-> ""]

UpIdle ==
    /\ fileContent = ""
    /\ upPc = "idle"
    /\ urlRequest = ""
    /\ urlResponse = NoResponse
    /\ putRequest = NoPut
    /\ putStatus = ""
    /\ upResult = ""

RestIdle == GvmIdle /\ WizIdle /\ UpIdle

\* The polling loop not running.
PollIdle ==
    /\ validStates = {}
    /\ failureStates = {}
    /\ interval = 1
    /\ timeoutSecs = 0
    /\ cancelled = FALSE
    /\ pollPc = "returned"
    /\ status = ""
    /\ timer = 0
    /\ response = ""
    /\ queries = 0
    /\ sleeps = 0

PollInit ==
    /\ validStates \in SUBSET Statuses
    /\ failureStates \in SUBSET Statuses
    /\ interval \in 1..MaxInterval
    /\ timeoutSecs \in 0..MaxTimeout
    /\ cancelled = FALSE
    /\ pollPc = "loop"
    /\ status = ""
    /\ timer = 0
    /\ response = ""
    /\ queries = 0
    /\ sleeps = 0
    /\ AuthStart
    /\ RestIdle

\* transformByQState is a mutable global: anyone may cancel at any time.
Cancel ==
    /\ ~cancelled
    /\ cancelled' = TRUE
    /\ UNCHANGED <<validStates, failureStates, interval, timeoutSecs,
                   pollPc, status, timer, response, queries, sleeps, authVars, restVars>>

\* Loop head: throwIfCancelled(), then the status query is issued and awaited.
IterationStart ==
    /\ pollPc = "loop"
    /\ queries < QueryCap
    /\ IF throwIfCancelled
         THEN /\ pollPc' = "threwStopped"
              /\ queries' = queries
         ELSE /\ pollPc' = "query"
              /\ queries' = queries + 1
    /\ UNCHANGED <<validStates, failureStates, interval, timeoutSecs, cancelled,
                   status, timer, response, sleeps, authVars, restVars>>

\* The awaited query resolves with status s: assign, match, then return,
\* throw, or start the sleep.
QueryResponds ==
    /\ pollPc = "query"
    /\ \E s \in Statuses :
        /\ response' = s
        /\ status' = s
        /\ IF IsValid(s)
             THEN pollPc' = "returned" /\ sleeps' = sleeps
             ELSE IF IsFailure(s)
                    THEN pollPc' = "threwFailed" /\ sleeps' = sleeps
                    ELSE pollPc' = "sleep" /\ sleeps' = sleeps + 1
    /\ UNCHANGED <<validStates, failureStates, interval, timeoutSecs, cancelled,
                   timer, queries, authVars, restVars>>

\* The awaited query rejects: nothing catches it inside the loop.
QueryFails ==
    /\ pollPc = "query"
    /\ response' = "ERROR"
    /\ pollPc' = OnQueryError
    /\ UNCHANGED <<validStates, failureStates, interval, timeoutSecs, cancelled,
                   status, timer, queries, sleeps, authVars, restVars>>

\* The awaited sleep resolves: timer advances, timeout check.
SleepDone ==
    /\ pollPc = "sleep"
    /\ timer' = timer + interval
    /\ pollPc' = IF TimedOut(timer') THEN "threwTimeout" ELSE "loop"
    /\ UNCHANGED <<validStates, failureStates, interval, timeoutSecs, cancelled,
                   status, response, queries, sleeps, authVars, restVars>>

PollStep == IterationStart \/ QueryResponds \/ QueryFails \/ SleepDone

PollNext == PollStep \/ Cancel

PollSpec == PollInit /\ [][PollNext]_vars

\* Every status query and every sleep completes.
PollFairSpec == PollSpec /\ WF_vars(PollStep)

(***************************************************************************)
(* CawsAuthStorage and CawsAuthenticationProvider                          *)
(*                                                                         *)
(* memento[u] is "absent" (no entry), "plain" (an entry whose              *)
(* invalidSession is not set) or "invalid" (invalidSession: true).         *)
(* memento.update changes the value seen by memento.get when it is called  *)
(* and resolves or rejects later; secrets.store takes effect when it       *)
(* resolves; secrets.get reads when it resolves.                           *)
(***************************************************************************)
AuthSettled == {"returned", "threw"}

\* updateUser, the memento half: { ...userdata, [username]: { ...userdata[username], ...metadata } }
\* metadata is "none" (undefined) or "invalid" ({ invalidSession: true }).
UpdateUserMemento(m, username, metadata) ==
    [m EXCEPT ![username] = IF metadata = "invalid" THEN "invalid"
                            ELSE IF @ = "absent" THEN "plain" ELSE @]

\* (mutation: the key does not include the username)
UpdateUserSecret_Mut(sec, username, secret) == [u \in Users |-> secret]

\* updateUser, the secret half: secrets.store(key(username), secret)
UpdateUserSecret(sec, username, secret) == [sec EXCEPT ![username] = secret]

\* getSecret: the value read, or the 'No secret found' error when it is falsy
GetSecretThrows(cookie) == cookie = ""

\* (mutation: the id is derived from the number of live sessions)
NextSessionId_Mut(counter) == Cardinality(DOMAIN sessions) + 1

\* `session-${(this.sessionCounter += 1)}`
NextSessionId(counter) == counter + 1

AuthInit ==
    /\ AuthStart
    /\ validStates = {}
    /\ failureStates = {}
    /\ interval = 1
    /\ timeoutSecs = 0
    /\ cancelled = FALSE
    /\ pollPc = "returned"
    /\ status = ""
    /\ timer = 0
    /\ response = ""
    /\ queries = 0
    /\ sleeps = 0
    /\ RestIdle

\* createAccount(cookie) is called: getUser(cookie) is awaited.
CreateAccountCall(p, c) ==
    /\ calls[p].op = "none"
    /\ calls' = [calls EXCEPT ![p] = [@ EXCEPT !.op = "createAccount", !.pc = "getUser",
                                              !.cookie = c]]
    /\ UNCHANGED <<memento, secrets, sessions, sessionCounter, events, pollVars, restVars>>

\* createSession(account) is called: login awaits storage.getSecret(account.id).
CreateSessionCall(p, a) ==
    /\ calls[p].op = "none"
    /\ calls' = [calls EXCEPT ![p] = [@ EXCEPT !.op = "createSession", !.pc = "getSecret",
                                              !.account = a]]
    /\ UNCHANGED <<memento, secrets, sessions, sessionCounter, events, pollVars, restVars>>

\* (mutation: the session id is taken before the login can fail)
LoginFails_Mut(p, e) ==
    /\ memento' = UpdateUserMemento(memento, calls[p].account, "invalid")
    /\ sessionCounter' = sessionCounter + 1
    /\ calls' = [calls EXCEPT ![p] = [@ EXCEPT !.pc = "threw", !.err = e, !.bg = "memento"]]
    /\ UNCHANGED <<secrets, sessions, events, pollVars, restVars>>

\* login's catch block: updateUser(account.id, '', { invalidSession: true }) is
\* started and not awaited, then the error is rethrown and createSession
\* rejects with it.
LoginFails(p, e) ==
    /\ memento' = UpdateUserMemento(memento, calls[p].account, "invalid")
    /\ calls' = [calls EXCEPT ![p] = [@ EXCEPT !.pc = "threw", !.err = e, !.bg = "memento"]]
    /\ UNCHANGED <<secrets, sessions, sessionCounter, events, pollVars, restVars>>

\* createAccount has no catch: the error leaves it.
CreateAccountFails(p, e) ==
    /\ calls' = [calls EXCEPT ![p] = [@ EXCEPT !.pc = "threw", !.err = e]]
    /\ UNCHANGED <<memento, secrets, sessions, sessionCounter, events, pollVars, restVars>>

Fails(p, e) ==
    IF calls[p].op = "createSession" THEN LoginFails(p, e) ELSE CreateAccountFails(p, e)

\* secrets.get resolves inside getSecret.
GetSecretResolves(p) ==
    /\ calls[p].pc = "getSecret"
    /\ LET cookie == secrets[calls[p].account] IN
         IF GetSecretThrows(cookie)
           THEN LoginFails(p, "No secret found")
           ELSE /\ calls' = [calls EXCEPT ![p] = [@ EXCEPT !.pc = "getUser", !.cookie = cookie]]
                /\ UNCHANGED <<memento, secrets, sessions, sessionCounter, events, pollVars, restVars>>

\* secrets.get rejects ("Decryption Failed").
GetSecretRejects(p) ==
    /\ calls[p].pc = "getSecret"
    /\ LoginFails(p, "Decryption Failed")

\* getUser(cookie) resolves with username u; updateUser(u, cookie) is called:
\* the memento is updated and memento.update is awaited.
GetUserResolves(p, u) ==
    /\ calls[p].pc = "getUser"
    /\ memento' = UpdateUserMemento(memento, u, "none")
    /\ calls' = [calls EXCEPT ![p] = [@ EXCEPT !.pc = "mementoUpdate", !.person = u]]
    /\ UNCHANGED <<secrets, sessions, sessionCounter, events, pollVars, restVars>>

\* getUser(cookie) rejects (verifyCookie throws 'Invalid session').
GetUserRejects(p) ==
    /\ calls[p].pc = "getUser"
    /\ Fails(p, "Invalid session")

\* memento.update resolves inside updateUser: secrets.store is called.
MementoUpdateResolves(p) ==
    /\ calls[p].pc = "mementoUpdate"
    /\ calls' = [calls EXCEPT ![p] = [@ EXCEPT !.pc = "secretStore"]]
    /\ UNCHANGED <<memento, secrets, sessions, sessionCounter, events, pollVars, restVars>>

\* memento.update rejects inside updateUser.
MementoUpdateRejects(p) ==
    /\ calls[p].pc = "mementoUpdate"
    /\ Fails(p, "memento.update failed")

\* secrets.store resolves: updateUser returns.  createAccount returns the
\* account; login builds the session, advancing the counter.
SecretStoreResolves(p) ==
    /\ calls[p].pc = "secretStore"
    /\ secrets' = UpdateUserSecret(secrets, calls[p].person, calls[p].cookie)
    /\ IF calls[p].op = "createSession"
         THEN /\ sessionCounter' = NextSessionId(sessionCounter)
              /\ calls' = [calls EXCEPT ![p] = [@ EXCEPT !.pc = "loginReturned",
                                                        !.sid = sessionCounter']]
         ELSE /\ sessionCounter' = sessionCounter
              /\ calls' = [calls EXCEPT ![p] = [@ EXCEPT !.pc = "returned"]]
    /\ UNCHANGED <<memento, sessions, events, pollVars, restVars>>

\* secrets.store rejects inside updateUser.
SecretStoreRejects(p) ==
    /\ calls[p].pc = "secretStore"
    /\ Fails(p, "secrets.store failed")

\* (mutation: the session names the account that was asked for, not the
\* username the verification returned)
SessionAdded_Mut(p) ==
    /\ calls[p].pc = "loginReturned"
    /\ LET session == [id |-> calls[p].sid, accessDetails |-> calls[p].cookie,
                       accountDetails |-> calls[p].account] IN
         /\ sessions' = (session.id :> session) @@ sessions
         /\ events' = events \cup {<<"added", session.id>>}
    /\ calls' = [calls EXCEPT ![p] = [@ EXCEPT !.pc = "returned"]]
    /\ UNCHANGED <<memento, secrets, sessionCounter, pollVars, restVars>>

\* createSession after `await this.login(account)`: sessions.set, fire, return.
SessionAdded(p) ==
    /\ calls[p].pc = "loginReturned"
    /\ LET session == [id |-> calls[p].sid, accessDetails |-> calls[p].cookie,
                       accountDetails |-> calls[p].person] IN
         /\ sessions' = (session.id :> session) @@ sessions
         /\ events' = events \cup {<<"added", session.id>>}
    /\ calls' = [calls EXCEPT ![p] = [@ EXCEPT !.pc = "returned"]]
    /\ UNCHANGED <<memento, secrets, sessionCounter, pollVars, restVars>>

\* The un-awaited updateUser of the catch block: its memento.update resolves
\* and secrets.store(key(account.id), '') is called.
BgMementoUpdateResolves(p) ==
    /\ calls[p].bg = "memento"
    /\ calls' = [calls EXCEPT ![p] = [@ EXCEPT !.bg = "secret"]]
    /\ UNCHANGED <<memento, secrets, sessions, sessionCounter, events, pollVars, restVars>>

\* ... or rejects: the rejection is unhandled, nothing is stored.
BgMementoUpdateRejects(p) ==
    /\ calls[p].bg = "memento"
    /\ calls' = [calls EXCEPT ![p] = [@ EXCEPT !.bg = "failed"]]
    /\ UNCHANGED <<memento, secrets, sessions, sessionCounter, events, pollVars, restVars>>

\* The un-awaited secrets.store(key(account.id), '') resolves.
BgSecretStoreResolves(p) ==
    /\ calls[p].bg = "secret"
    /\ secrets' = UpdateUserSecret(secrets, calls[p].account, "")
    /\ calls' = [calls EXCEPT ![p] = [@ EXCEPT !.bg = "done"]]
    /\ UNCHANGED <<memento, sessions, sessionCounter, events, pollVars, restVars>>

\* ... or rejects.
BgSecretStoreRejects(p) ==
    /\ calls[p].bg = "secret"
    /\ calls' = [calls EXCEPT ![p] = [@ EXCEPT !.bg = "failed"]]
    /\ UNCHANGED <<memento, secrets, sessions, sessionCounter, events, pollVars, restVars>>

\* deleteSession(session), for a session with id i.
DeleteSession(i) ==
    /\ IF i \in DOMAIN sessions
         THEN /\ sessions' = [j \in DOMAIN sessions \ {i} |-> sessions[j]]
              /\ events' = events \cup {<<"removed", i>>}
         ELSE UNCHANGED <<sessions, events, restVars>>
    /\ UNCHANGED <<memento, secrets, sessionCounter, calls, pollVars, restVars>>

AuthNext ==
    \/ \E p \in Calls, c \in Cookies : CreateAccountCall(p, c)
    \/ \E p \in Calls, a \in Users : CreateSessionCall(p, a)
    \/ \E p \in Calls : GetSecretResolves(p)
    \/ \E p \in Calls : GetSecretRejects(p)
    \/ \E p \in Calls, u \in Users : GetUserResolves(p, u)
    \/ \E p \in Calls : GetUserRejects(p)
    \/ \E p \in Calls : MementoUpdateResolves(p)
    \/ \E p \in Calls : MementoUpdateRejects(p)
    \/ \E p \in Calls : SecretStoreResolves(p)
    \/ \E p \in Calls : SecretStoreRejects(p)
    \/ \E p \in Calls : SessionAdded(p)
    \/ \E p \in Calls : BgMementoUpdateResolves(p)
    \/ \E p \in Calls : BgMementoUpdateRejects(p)
    \/ \E p \in Calls : BgSecretStoreResolves(p)
    \/ \E p \in Calls : BgSecretStoreRejects(p)
    \/ \E i \in 1..NumCalls : DeleteSession(i)

AuthSpec == AuthInit /\ [][AuthNext]_vars

(***************************************************************************)
(* Claims about pollTransformationJob                                      *)
(***************************************************************************)
\* A status that is neither valid nor a failure.
IsPending(s) == s \notin validStates /\ s \notin failureStates

\* A terminal failure status: in the failure set and not in validStates.
IsTerminalFailure(s) == s \in failureStates /\ s \notin validStates

\* C1: pollTransformationJob returns normally only with a status that is a
\* member of validStates, and that status is the one the most recent status
\* query reported; a returned status is neither pending nor a terminal
\* failure.
C1_ReturnsValidLatest ==
    pollPc = "returned" =>
        /\ queries >= 1
        /\ status \in validStates
        /\ status = response
        /\ ~IsPending(status)
        /\ ~IsTerminalFailure(status)

\* C1 witness: a normal return after at least one pending round.
C1_Witness == pollPc = "returned" /\ queries >= 2 /\ sleeps >= 1

\* C2: with every query and sleep completing, the poll terminates; the
\* accumulated sleep time is `timer`; as soon as it exceeds the timeout the
\* poll has thrown the timeout error, and at most floor(T/I)+1 status
\* queries are ever issued.
C2_TerminatesWithinBound ==
    /\ [](/\ queries <= (timeoutSecs \div interval) + 1
          /\ timer = interval * (IF pollPc = "sleep" THEN sleeps - 1 ELSE sleeps)
          /\ (timer > timeoutSecs <=> pollPc = "threwTimeout"))
    /\ <>(pollPc \in PollSettled)

\* C2 witness: a job that stayed pending until the timeout, with the full
\* floor(T/I)+1 queries issued.
C2_Witness ==
    /\ pollPc = "threwTimeout"
    /\ queries = (timeoutSecs \div interval) + 1
    /\ queries >= 2

\* A query response with a terminal failure status throws at once.
FailureThrowsAtOnce ==
    [][(pollPc = "query" /\ pollPc' # "query" /\ IsTerminalFailure(response'))
         => (pollPc' = "threwFailed" /\ sleeps' = sleeps /\ queries' = queries
             /\ timer' = timer)]_vars

\* A query response with a pending status starts one sleep.
PendingSleeps ==
    [][(pollPc = "query" /\ pollPc' # "query" /\ response' # "ERROR"
          /\ IsPending(response'))
         => (pollPc' = "sleep" /\ sleeps' = sleeps + 1 /\ queries' = queries)]_vars

\* C3 (as stated): a terminal failure status throws 'Job failed' without
\* sleeping or querying again, and a pending status is always followed by a
\* sleep of one interval and then by another status query.
C3_Original ==
    /\ FailureThrowsAtOnce
    /\ PendingSleeps
    /\ [][(pollPc = "sleep" /\ pollPc' # "sleep")
            => (timer' = timer + interval /\ pollPc' = "loop")]_vars
    /\ [][(pollPc = "loop" /\ sleeps > 0 /\ pollPc' # "loop")
            => (pollPc' = "query" /\ queries' = queries + 1)]_vars

\* C3 (amended): a terminal failure status throws 'Job failed' without
\* sleeping or querying again; a pending status is followed by a sleep of
\* one interval, after which the poll throws the timeout error if the
\* accumulated time exceeds the timeout, throws TransformByQStoppedError if
\* the transform is cancelled, and otherwise queries again.
C3_FailureVsPending ==
    /\ FailureThrowsAtOnce
    /\ PendingSleeps
    /\ [][(pollPc = "sleep" /\ pollPc' # "sleep")
            => /\ timer' = timer + interval
               /\ queries' = queries
               /\ pollPc' = IF timer' > timeoutSecs THEN "threwTimeout" ELSE "loop"]_vars
    /\ [][(pollPc = "loop" /\ sleeps > 0 /\ pollPc' # "loop")
            => IF cancelled
                 THEN pollPc' = "threwStopped" /\ queries' = queries
                 ELSE pollPc' = "query" /\ queries' = queries + 1]_vars

\* C3 witness: a pending status was slept on and queried again, and the
\* later query reported a terminal failure.
C3_Witness ==
    /\ pollPc = "threwFailed"
    /\ sleeps >= 1
    /\ queries = sleeps + 1
    /\ IsTerminalFailure(status)

\* C4: cancellation is checked before the status query in every iteration:
\* a query is issued only from an iteration that began uncancelled, an
\* iteration that begins cancelled throws TransformByQStoppedError, and no
\* query is issued after that.
C4_CancelCheckedFirst ==
    /\ [][queries' # queries => (~cancelled /\ pollPc = "loop")]_vars
    /\ [][(pollPc = "loop" /\ cancelled /\ pollPc' # "loop")
            => (pollPc' = "threwStopped" /\ queries' = queries)]_vars
    /\ [][pollPc = "threwStopped"
            => (pollPc' = "threwStopped" /\ queries' = queries)]_vars

\* C4 witness: a later iteration found the transform cancelled.
C4_Witness == pollPc = "threwStopped" /\ cancelled /\ queries >= 1

\* C5: a failed status query ends the poll with that error at once; no
\* further query or sleep follows.
C5_NoRetry ==
    /\ [][(response' = "ERROR" /\ pollPc = "query")
            => (pollPc' = "threwQueryError" /\ queries' = queries
                /\ sleeps' = sleeps /\ timer' = timer)]_vars
    /\ [][(response = "ERROR")
            => (pollPc = "threwQueryError" /\ pollPc' = pollPc
                /\ queries' = queries /\ sleeps' = sleeps)]_vars

\* C5 witness: a query failed after an earlier pending round.
C5_Witness == pollPc = "threwQueryError" /\ response = "ERROR" /\ queries >= 2

(***************************************************************************)
(* Claims about CawsAuthStorage and CawsAuthenticationProvider             *)
(***************************************************************************)
\* The step is taken by call p.
Acts(p) == calls'[p] # calls[p]

\* C6 (as stated): when createAccount or createSession has settled, no write
\* to the user memento or the secret store started by that call is still
\* pending.
C6_NoPendingWrites ==
    \A p \in Calls :
        calls[p].pc \in AuthSettled => calls[p].bg \notin {"memento", "secret"}

\* The errors each awaited step of login can raise.
StageErrors(pc) ==
    CASE pc = "getSecret"     -> {"No secret found", "Decryption Failed"}
      [] pc = "getUser"       -> {"Invalid session"}
      [] pc = "mementoUpdate" -> {"memento.update failed"}
      [] pc = "secretStore"   -> {"secrets.store failed"}
      [] OTHER                -> {}

SessionCalls(pcs) == {p \in Calls : calls[p].op = "createSession" /\ calls[p].pc \in pcs}

\* C7: when login fails inside createSession, the error of the failing step
\* is what createSession throws, and the failing call adds no session, does
\* not advance the session counter and fires no event: the counter counts
\* exactly the logins that succeeded and the 'added' events exactly the
\* createSession calls that returned.
C7_FailedLoginLeavesNoSession ==
    /\ [][\A p \in Calls :
            (calls[p].op = "createSession" /\ calls[p].pc # "threw" /\ calls'[p].pc = "threw")
              => /\ calls'[p].err \in StageErrors(calls[p].pc)
                 /\ (calls'[p].err = "No secret found" => secrets[calls[p].account] = "")
                 /\ calls'[p].sid = 0
                 /\ sessions' = sessions
                 /\ sessionCounter' = sessionCounter
                 /\ events' = events]_vars
    /\ [](/\ sessionCounter = Cardinality(SessionCalls({"loginReturned", "returned"}))
          /\ Cardinality({e \in events : e[1] = "added"})
               = Cardinality(SessionCalls({"returned"}))
          /\ \A p \in SessionCalls({"threw"}) :
               calls[p].sid = 0 /\ calls[p].err # "")

\* C7 witness: a createSession failed on the storage write, after the cookie
\* was read and verified.
C7_Witness ==
    \E p \in Calls :
        /\ calls[p].op = "createSession"
        /\ calls[p].pc = "threw"
        /\ calls[p].err = "secrets.store failed"
        /\ sessionCounter = 0 /\ sessions = <<>> /\ events = {}

\* C8 (as stated): a user whose stored secret is a cookie that the latest
\* createAccount or login for that user verified and stored does not have
\* invalidSession set: right after such a store, the user is not flagged.
C8_FlagOnlyIfInvalid ==
    [][\A p \in Calls :
         (calls[p].pc = "secretStore" /\ calls'[p].pc \in {"returned", "loginReturned"})
           => (/\ secrets'[calls[p].person] = calls[p].cookie
               /\ memento'[calls[p].person] # "invalid")]_vars

\* C9: createAccount writes nothing before the verification succeeded; when
\* the verification fails, the error is thrown with the memento and the
\* secret store as they were; the user entry and then the secret are
\* written under the username the verification returned, and nowhere else.
C9_AccountOnlyAfterVerify ==
    /\ [][\A p \in Calls :
            (calls'[p].op = "createAccount" /\ Acts(p))
              => CASE calls[p].pc = "getUser" /\ calls'[p].pc = "threw"
                        -> /\ calls'[p].err = "Invalid session"
                           /\ memento' = memento /\ secrets' = secrets
                   [] calls[p].pc = "getUser" /\ calls'[p].pc # "threw"
                        -> /\ calls'[p].person \in Users
                           /\ memento'[calls'[p].person] # "absent"
                           /\ \A u \in Users \ {calls'[p].person} : memento'[u] = memento[u]
                           /\ secrets' = secrets
                   [] calls[p].pc = "secretStore" /\ calls'[p].pc = "returned"
                        -> /\ memento' = memento
                           /\ secrets' = [secrets EXCEPT ![calls[p].person] = calls[p].cookie]
                   [] OTHER
                        -> memento' = memento /\ secrets' = secrets]_vars
    /\ [](\A p \in Calls :
            (calls[p].op = "createAccount" /\ calls[p].pc \in {"idle", "getUser"})
              => calls[p].person = "")

\* C9 witness: a createAccount returned, its cookie stored under the
\* verified username, in the presence of a createAccount whose verification
\* failed.
C9_Witness ==
    \E p, q \in Calls :
        /\ calls[p].op = "createAccount" /\ calls[p].pc = "returned"
        /\ secrets[calls[p].person] = calls[p].cookie
        /\ calls[q].op = "createAccount" /\ calls[q].pc = "threw"
        /\ calls[q].err = "Invalid session"

\* C10 (as stated): createSession does not need a stored account: a
\* createSession for an account without a stored secret is not turned down
\* for the lack of it.
C10_SessionWithoutSecret ==
    \A p \in Calls :
        ~(calls[p].op = "createSession" /\ calls[p].pc = "threw"
          /\ calls[p].err = "No secret found")

\* What the code does instead: every login that succeeded read a stored,
\* non-empty secret of the account.
SessionNeedsSecret ==
    \A p \in SessionCalls({"mementoUpdate", "secretStore", "loginReturned", "returned"}) :
        calls[p].cookie \in Cookies

(***************************************************************************)
(* getValidModules                                                         *)
(*                                                                         *)
(* A workspace folder is what the host answers about it: whether findFiles *)
(* finds a .class file, whether spawning javap fails, the major version    *)
(* javap prints, and whether findFiles finds a pom.xml.                    *)
(***************************************************************************)
\* CodeWhispererConstants.JDK8VersionNumber / JDK11VersionNumber, and a
\* class-file major version that is neither.
JDK8VersionNumber == "52"
JDK11VersionNumber == "55"
JavaVersions == {JDK8VersionNumber, JDK11VersionNumber, "61"}

Folders == [hasClass : BOOLEAN, spawnError : BOOLEAN,
            javaVersion : JavaVersions, hasPom : BOOLEAN]

RECURSIVE SeqsUpTo(_, _)
\* All sequences over S of length at most n.
SeqsUpTo(S, n) ==
    IF n = 0 THEN {<<>>}
    ELSE LET shorter == SeqsUpTo(S, n - 1) IN
           shorter \cup {Append(q, x) : q \in {r \in shorter : Len(r) = n - 1}, x \in S}

GvmSettled == {"returned", "threwNoProjectsOpen", "threwNoJava", "threwNoBuildFile"}

\* compiledJavaFiles.length < 1
NoClassFile(f) == ~f.hasClass

\* javaVersion === JDK8VersionNumber || javaVersion === JDK11VersionNumber
SupportedJava(f) == f.javaVersion = JDK8VersionNumber \/ f.javaVersion = JDK11VersionNumber

\* (mutation: the pom.xml check is dropped)
HasBuildFile_Mut(f) == TRUE

\* buildFile.length >= 1
HasBuildFile(f) == f.hasPom

GvmInit ==
    /\ folders \in {[defined |-> FALSE, list |-> <<>>]}
                     \cup {[defined |-> TRUE, list |-> l] : l \in SeqsUpTo(Folders, MaxFolders)}
    /\ folderIdx = 0
    /\ validModules = <<>>
    /\ containsSupportedJava = FALSE
    /\ containsPomXml = FALSE
    /\ sourceJDKVersion = ""
    /\ gvmPc = "start"
    /\ PollIdle /\ AuthStart /\ WizIdle /\ UpIdle

\* folders === undefined: showErrorMessage and throw; otherwise enter the loop.
GvmStart ==
    /\ gvmPc = "start"
    /\ IF ~folders.defined
         THEN gvmPc' = "threwNoProjectsOpen" /\ folderIdx' = folderIdx
         ELSE gvmPc' = "loop" /\ folderIdx' = 1
    /\ UNCHANGED <<folders, validModules, containsSupportedJava, containsPomXml,
                   sourceJDKVersion, pollVars, authVars, wizVars, upVars>>

\* One iteration of `for (const folder of folders)`.
GvmFolder ==
    /\ gvmPc = "loop"
    /\ folderIdx <= Len(folders.list)
    /\ LET f == folders.list[folderIdx] IN
         IF NoClassFile(f) \/ f.spawnError \/ ~SupportedJava(f)
           THEN \* continue
                UNCHANGED <<validModules, containsSupportedJava, containsPomXml,
                            sourceJDKVersion>>
           ELSE /\ sourceJDKVersion' = IF f.javaVersion = JDK8VersionNumber
                                         THEN "JDK8" ELSE "JDK11"
                /\ containsSupportedJava' = TRUE
                /\ IF HasBuildFile(f)
                     THEN /\ containsPomXml' = TRUE
                          /\ validModules' = Append(validModules, folderIdx)
                     ELSE UNCHANGED <<containsPomXml, validModules>>
    /\ folderIdx' = folderIdx + 1
    /\ UNCHANGED <<folders, gvmPc, pollVars, authVars, wizVars, upVars>>

\* After the loop: the two checks, then `return validModules`.
GvmFinish ==
    /\ gvmPc = "loop"
    /\ folderIdx > Len(folders.list)
    /\ gvmPc' = IF ~containsSupportedJava THEN "threwNoJava"
                ELSE IF ~containsPomXml THEN "threwNoBuildFile"
                ELSE "returned"
    /\ UNCHANGED <<folders, folderIdx, validModules, containsSupportedJava, containsPomXml,
                   sourceJDKVersion, pollVars, authVars, wizVars, upVars>>

GvmNext == GvmStart \/ GvmFolder \/ GvmFinish

GvmSpec == GvmInit /\ [][GvmNext]_vars

(***************************************************************************)
(* Claims about getValidModules                                            *)
(***************************************************************************)
\* A folder with a class file whose JDK version was read and is 8 or 11.
FolderSupported(f) ==
    f.hasClass /\ ~f.spawnError /\ f.javaVersion \in {"52", "55"}

RECURSIVE ExpectedModules(_)
\* The first n folders that are supported and hold a pom.xml, in order.
ExpectedModules(n) ==
    IF n = 0 THEN <<>>
    ELSE IF FolderSupported(folders.list[n]) /\ folders.list[n].hasPom
           THEN Append(ExpectedModules(n - 1), n)
           ELSE ExpectedModules(n - 1)

\* C11: getValidModules returns exactly the folders in which a class file
\* was found, whose JDK version was read and is 8 or 11, and in which a
\* pom.xml was found; over an open workspace it throws 'No Java projects
\* found' exactly when no folder is supported and 'No build file found'
\* exactly when some folder is supported and none of those has a pom.xml; a
\* normal return is never empty.
C11_ValidModules ==
    LET n == Len(folders.list)
        anySupported == \E i \in 1..n : FolderSupported(folders.list[i])
    IN  /\ gvmPc = "returned" =>
              /\ validModules = ExpectedModules(n)
              /\ validModules # <<>>
        /\ (gvmPc = "threwNoJava" <=>
              (gvmPc \in GvmSettled /\ folders.defined /\ ~anySupported))
        /\ (gvmPc = "threwNoBuildFile" <=>
              (gvmPc \in GvmSettled /\ anySupported /\ ExpectedModules(n) = <<>>))
        /\ (gvmPc = "threwNoProjectsOpen" <=> (gvmPc \in GvmSettled /\ ~folders.defined))

\* C11 witness: two folders, one returned and one left out for its missing
\* pom.xml although its JDK version is supported.
C11_Witness ==
    /\ gvmPc = "returned"
    /\ Len(folders.list) = 2
    /\ Len(validModules) = 1
    /\ \E i \in 1..2 : FolderSupported(folders.list[i]) /\ ~folders.list[i].hasPom

(***************************************************************************)
(* The provider constructed over a storage that an earlier run left        *)
(* behind: alice has an account and its cookie, bob has none.              *)
(***************************************************************************)
AuthStoredInit ==
    /\ secrets = [u \in Users |-> IF u = "alice" THEN "c1" ELSE ""]
    /\ memento = [u \in Users |-> IF secrets[u] = "" THEN "absent" ELSE "plain"]
    /\ sessions = <<>>
    /\ sessionCounter = 0
    /\ events = {}
    /\ calls = [p \in Calls |-> NoCall]
    /\ PollIdle /\ RestIdle

AuthStoredSpec == AuthStoredInit /\ [][AuthNext]_vars

\* A host call in flight completes: it resolves or it rejects.
AuthProgress ==
    \E p \in Calls :
        \/ GetSecretResolves(p) \/ GetSecretRejects(p)
        \/ (\E u \in Users : GetUserResolves(p, u)) \/ GetUserRejects(p)
        \/ MementoUpdateResolves(p) \/ MementoUpdateRejects(p)
        \/ SecretStoreResolves(p) \/ SecretStoreRejects(p)
        \/ SessionAdded(p)
        \/ BgMementoUpdateResolves(p) \/ BgMementoUpdateRejects(p)
        \/ BgSecretStoreResolves(p) \/ BgSecretStoreRejects(p)

AuthStoredFairSpec == AuthStoredSpec /\ WF_vars(AuthProgress)

(***************************************************************************)
(* Claims about login, createSession and deleteSession                     *)
(***************************************************************************)
\* A login for account a has failed.
LoginFailed(a) ==
    \E p \in Calls :
        calls[p].op = "createSession" /\ calls[p].account = a /\ calls[p].pc = "threw"

\* The secret of a is empty and a is marked invalidSession.
Cleared(a) == secrets[a] = "" /\ memento[a] = "invalid"

\* C12 (as stated): after a login for account A failed, eventually the
\* secret stored for A is empty and A is marked invalidSession; from then
\* on every createSession(A) that reads the secret fails, and no login for
\* A puts a secret for A back: only a createAccount stores one.
C12_FailedLoginClearsSecret ==
    /\ \A a \in Users : LoginFailed(a) ~> Cleared(a)
    /\ [][\A a \in Users :
            (LoginFailed(a) /\ Cleared(a))
              => \A p \in Calls :
                   (calls[p].op = "createSession" /\ calls[p].account = a /\ Acts(p))
                     => /\ secrets'[a] = ""
                        /\ (calls[p].pc = "getSecret" => calls'[p].pc = "threw")]_vars

\* C13: a session created by createSession(account) carries as
\* accessDetails the secret that was stored for account.id when login read
\* it and as accountDetails.id the username that the verification of that
\* cookie returned in the same call.
C13_SessionFromVerifiedCookie ==
    /\ [][\A p \in Calls :
            (calls'[p].op = "createSession" /\ Acts(p))
              => /\ (calls[p].pc = "getSecret" /\ calls'[p].pc # "threw")
                      => /\ calls'[p].pc = "getUser"
                         /\ calls'[p].cookie = secrets[calls[p].account]
                         /\ calls'[p].cookie \in Cookies
                 /\ (calls[p].pc \notin {"idle", "getSecret"})
                      => calls'[p].cookie = calls[p].cookie
                 /\ (calls[p].pc = "getUser" /\ calls'[p].pc # "threw")
                      => /\ calls'[p].pc = "mementoUpdate"
                         /\ calls'[p].person \in Users
                 /\ (calls[p].pc \notin {"idle", "getSecret", "getUser"})
                      => calls'[p].person = calls[p].person
                 /\ (calls[p].pc = "loginReturned")
                      => /\ calls'[p].pc = "returned"
                         /\ calls[p].sid \in DOMAIN sessions'
                         /\ sessions'[calls[p].sid]
                              = [id |-> calls[p].sid,
                                 accessDetails |-> calls[p].cookie,
                                 accountDetails |-> calls[p].person]]_vars
    /\ [](\A p \in SessionCalls({"loginReturned", "returned"}) :
            calls[p].cookie \in Cookies /\ calls[p].person \in Users)

\* C13 witness: a session was returned with the cookie login had read,
\* although the secret stored for the account has changed since.
C13_Witness ==
    \E p \in SessionCalls({"returned"}) :
        /\ calls[p].sid \in DOMAIN sessions
        /\ sessions[calls[p].sid].accessDetails = calls[p].cookie
        /\ sessions[calls[p].sid].accountDetails = calls[p].person
        /\ secrets[calls[p].account] # calls[p].cookie

\* Every session id seen so far: of a live session, of an event, or held by
\* a call whose login returned.
KnownIds ==
    DOMAIN sessions \cup {e[2] : e \in events}
        \cup {calls[p].sid : p \in {q \in Calls : calls[q].sid # 0}}

\* C14: no two successfully created sessions have the same id, under any
\* interleaving of createSession and deleteSession calls, failed calls
\* included, and a new id is never one that was used before, deleted or not.
C14_UniqueSessionIds ==
    /\ [](/\ \A p, q \in Calls :
               (p # q /\ calls[p].sid # 0 /\ calls[q].sid # 0)
                 => calls[p].sid # calls[q].sid
          /\ \A i \in DOMAIN sessions : sessions[i].id = i)
    /\ [][\A p \in Calls :
            (calls[p].sid = 0 /\ calls'[p].sid # 0) => calls'[p].sid \notin KnownIds]_vars

\* C14 witness: two sessions were created, one of them is deleted and the
\* other is live.
C14_Witness ==
    \E p, q \in SessionCalls({"returned"}) :
        /\ p # q
        /\ <<"removed", calls[p].sid>> \in events
        /\ calls[q].sid \in DOMAIN sessions

(***************************************************************************)
(* Claims about cancelling a poll                                          *)
(***************************************************************************)
\* C15 (as stated): a poll that is cancelled before it settles never
\* returns a status, whenever the cancellation arrives, also while a status
\* query or a sleep is in flight.
C15_Original ==
    [][(cancelled /\ pollPc \notin PollSettled) => pollPc' # "returned"]_vars

\* The transform is cancelled and no status query is in flight.
CancelledOutsideQuery ==
    cancelled /\ pollPc \in {"loop", "sleep", "threwStopped", "threwTimeout"}

\* C15 (amended): a poll that is cancelled while no status query is in
\* flight never returns a status: it ends with TransformByQStoppedError at
\* the start of the next iteration, or with the timeout error if the sleep
\* it was in exceeds the timeout.  A poll cancelled while a status query is
\* in flight ends as that query decides: it returns the status if it is
\* valid, throws on a failure status or a failed query, and is stopped
\* only after the following sleep.
C15_CancelledOutsideQueryNeverReturns ==
    /\ [][CancelledOutsideQuery => CancelledOutsideQuery']_vars
    /\ [][(cancelled /\ pollPc = "loop" /\ pollPc' # "loop")
            => pollPc' = "threwStopped"]_vars
    /\ [][(cancelled /\ pollPc = "sleep" /\ pollPc' # "sleep")
            => pollPc' = IF timer' > timeoutSecs THEN "threwTimeout" ELSE "loop"]_vars
    /\ [][(cancelled /\ pollPc = "query" /\ pollPc' # "query")
            => pollPc' = IF response' = "ERROR" THEN "threwQueryError"
                         ELSE IF response' \in validStates THEN "returned"
                         ELSE IF response' \in failureStates THEN "threwFailed"
                         ELSE "sleep"]_vars

\* C15 witness: a poll cancelled during its sleep was stopped at the next
\* iteration.
C15_Witness ==
    /\ pollPc = "threwStopped"
    /\ sleeps >= 1
    /\ timer <= timeoutSecs

(***************************************************************************)
(* EnvironmentSettingsWizard.run                                           *)
(*                                                                         *)
(* Field values are written as strings; a timeout is what Number(r) gives  *)
(* for the text that was entered, "NaN" included.                          *)
(***************************************************************************)
InstanceTypes == {"mde.large", "mde.xlarge"}
Timeouts == {"15", "30", "NaN"}
StorageSizes == {"16", "32"}

SettingsForm == [instanceType : InstanceTypes, inactivityTimeoutMinutes : Timeouts,
                 persistentStorage : StorageSizes]

\* The fields the menu can edit, and what the prompt of each can give.
EditItems == {"instanceType", "inactivityTimeoutMinutes", "persistentStorage"}

FieldValues(field) ==
    CASE field = "instanceType" -> InstanceTypes
      [] field = "inactivityTimeoutMinutes" -> Timeouts
      [] field = "persistentStorage" -> StorageSizes

\* What a prompt gives when it is cancelled or a wizard control is used.
InvalidResponses == {"undefined", "WIZARD_BACK"}

\* isValidResponse of shared/wizards/wizard
isValidResponse(r) == r \notin InvalidResponses

\* (mutation: the result of the prompt is assigned without the check)
ApplyEdit_Mut(form, field, result) == [form EXCEPT ![field] = result]

\* The data callback of an edit item:
\* if (isValidResponse(result)) { currentState.<field> = result }
ApplyEdit(form, field, result) ==
    IF isValidResponse(result) THEN [form EXCEPT ![field] = result] ELSE form

WizSettled == {"saved", "cancelled"}

WizInit ==
    /\ initState \in SettingsForm
    /\ curr = NoForm
    /\ lastItem = "undefined"
    /\ accepted = NoForm
    /\ wizPc = "start"
    /\ wizResult = [defined |-> FALSE, form |-> NoForm]
    /\ PollIdle /\ AuthStart /\ GvmIdle /\ UpIdle

\* run() is called: curr = Object.assign({}, this.initState), first menu shown.
WizStart ==
    /\ wizPc = "start"
    /\ curr' = initState
    /\ accepted' = initState
    /\ wizPc' = "menu"
    /\ UNCHANGED <<initState, lastItem, wizResult, pollVars, authVars, gvmVars, upVars>>

\* An edit item is picked in the menu: its data callback shows the prompt of
\* the field.
WizPickEdit(field) ==
    /\ wizPc = "menu"
    /\ wizPc' = field
    /\ UNCHANGED <<initState, curr, lastItem, accepted, wizResult,
                   pollVars, authVars, gvmVars, upVars>>

\* The prompt of the field answers r: the callback applies it and returns
\* its item; run keeps the item as lastItem and shows the menu again.
WizEditResponds(r) ==
    /\ wizPc \in EditItems
    /\ r \in FieldValues(wizPc) \cup InvalidResponses
    /\ curr' = ApplyEdit(curr, wizPc, r)
    /\ accepted' = IF r \in FieldValues(wizPc) THEN [accepted EXCEPT ![wizPc] = r]
                   ELSE accepted
    /\ lastItem' = wizPc
    /\ wizPc' = "menu"
    /\ UNCHANGED <<initState, wizResult, pollVars, authVars, gvmVars, upVars>>

\* 'Save Settings' is picked: its data is currentState, which is no
\* DataQuickPickItem, so run returns it.
WizSave ==
    /\ wizPc = "menu"
    /\ wizResult' = [defined |-> TRUE, form |-> curr]
    /\ wizPc' = "saved"
    /\ UNCHANGED <<initState, curr, lastItem, accepted, pollVars, authVars, gvmVars, upVars>>

\* The menu is cancelled: the response is not valid, run breaks out of the
\* loop and returns undefined.
WizCancelMenu ==
    /\ wizPc = "menu"
    /\ wizResult' = [defined |-> FALSE, form |-> NoForm]
    /\ wizPc' = "cancelled"
    /\ UNCHANGED <<initState, curr, lastItem, accepted, pollVars, authVars, gvmVars, upVars>>

WizNext ==
    \/ WizStart
    \/ \E field \in EditItems : WizPickEdit(field)
    \/ \E r \in InstanceTypes \cup Timeouts \cup StorageSizes \cup InvalidResponses :
         WizEditResponds(r)
    \/ WizSave
    \/ WizCancelMenu

WizSpec == WizInit /\ [][WizNext]_vars

(***************************************************************************)
(* Claims about EnvironmentSettingsWizard.run                              *)
(***************************************************************************)
\* C16: run ends only from the menu, by Save or by cancelling it; on Save
\* it returns the initial state with each field replaced by the last
\* accepted edit of that field; a prompt that is cancelled or answers with
\* a wizard control changes no field; cancelling the menu returns
\* undefined whatever was edited; the initial state itself is never
\* changed.
C16_WizardResult ==
    /\ [](/\ wizPc \notin {"idle", "start"} => curr = accepted
          /\ wizPc = "saved" => (wizResult.defined /\ wizResult.form = accepted)
          /\ wizPc = "cancelled" => ~wizResult.defined
          /\ wizPc \notin WizSettled => ~wizResult.defined)
    /\ [][(wizPc \notin WizSettled /\ wizPc' \in WizSettled) => wizPc = "menu"]_vars
    /\ [][(wizPc \in WizSettled) => (wizPc' = wizPc /\ wizResult' = wizResult)]_vars
    /\ [][initState' = initState]_vars

\* C16 witness: Save after an accepted edit of the compute size, with the
\* storage size as it was.
C16_Witness ==
    /\ wizPc = "saved"
    /\ wizResult.form.instanceType # initState.instanceType
    /\ wizResult.form.persistentStorage = initState.persistentStorage
    /\ lastItem = "persistentStorage"

(***************************************************************************)
(* uploadPayload and uploadArtifactToS3                                    *)
(***************************************************************************)
Contents == {"zipA", "zipB"}
FileStates == Contents \cup {"ENOENT"}
UploadIds == {"u1", "u2"}
UploadUrls == {"https://s3/a", "https://s3/b"}
KmsKeyArns == {"undefined", "", "arn:kms:1"}
PutStatuses == {"200", "403"}

\* fs.readFileSync(fileName) throws when the file cannot be read.
ReadThrows(content) == content = "ENOENT"

\* getSha256: the base64 SHA-256 digest of the content, one digest per
\* content.
getSha256(content) == "sha256:" \o content

\* (mutation: the branch for a KMS key leaves the checksum header out)
HeadersObj_Mut(sha256, resp) ==
    IF resp.kmsKeyArn = "undefined" \/ resp.kmsKeyArn = ""
    THEN [checksum |-> sha256, contentType |-> "application/zip", sse |-> "", kmsKeyId |-> ""]
    ELSE [checksum |-> "", contentType |-> "application/zip", sse |-> "aws:kms",
          kmsKeyId |-> resp.kmsKeyArn]

\* headersObj of uploadArtifactToS3
HeadersObj(sha256, resp) ==
    IF resp.kmsKeyArn = "undefined" \/ resp.kmsKeyArn = ""
    THEN [checksum |-> sha256, contentType |-> "application/zip", sse |-> "", kmsKeyId |-> ""]
    ELSE [checksum |-> sha256, contentType |-> "application/zip", sse |-> "aws:kms",
          kmsKeyId |-> resp.kmsKeyArn]

UpSettled == {"returned", "threw"}

UpInit ==
    /\ fileContent \in FileStates
    /\ upPc = "start"
    /\ urlRequest = ""
    /\ urlResponse = NoResponse
    /\ putRequest = NoPut
    /\ putStatus = ""
    /\ upResult = ""
    /\ PollIdle /\ AuthStart /\ GvmIdle /\ WizIdle

\* Something else rewrites or removes the payload file.
FileChanges(c) ==
    /\ upPc \notin UpSettled
    /\ c # fileContent
    /\ fileContent' = c
    /\ UNCHANGED <<upPc, urlRequest, urlResponse, putRequest, putStatus, upResult,
                   pollVars, authVars, gvmVars, wizVars>>

\* uploadPayload up to its first await: the checksum is computed and sent
\* as contentChecksum of createUploadUrl.
UploadStart ==
    /\ upPc = "start"
    /\ IF ReadThrows(fileContent)
       THEN upPc' = "threw" /\ UNCHANGED urlRequest
       ELSE upPc' = "createUrl" /\ urlRequest' = getSha256(fileContent)
    /\ UNCHANGED <<fileContent, urlResponse, putRequest, putStatus, upResult,
                   pollVars, authVars, gvmVars, wizVars>>

\* createUploadUrl resolves; uploadArtifactToS3 runs up to its await: the
\* checksum is computed again, and the PUT is issued to resp.uploadUrl with
\* the file as its body.
CreateUploadUrlResolves(id, url, kms) ==
    /\ upPc = "createUrl"
    /\ urlResponse' = [uploadId |-> id, uploadUrl |-> url, kmsKeyArn |-> kms]
    /\ IF ReadThrows(fileContent)
       THEN upPc' = "threw" /\ UNCHANGED putRequest
       ELSE /\ upPc' = "put"
            /\ putRequest' = [url |-> urlResponse'.uploadUrl,
                              headers |-> HeadersObj(getSha256(fileContent), urlResponse'),
                              body |-> fileContent]
    /\ UNCHANGED <<fileContent, urlRequest, putStatus, upResult,
                   pollVars, authVars, gvmVars, wizVars>>

CreateUploadUrlRejects ==
    /\ upPc = "createUrl"
    /\ upPc' = "threw"
    /\ UNCHANGED <<fileContent, urlRequest, urlResponse, putRequest, putStatus, upResult,
                   pollVars, authVars, gvmVars, wizVars>>

\* The PUT gets a response: its status is logged, whatever it is, and
\* uploadPayload returns response.uploadId.
PutResolves(code) ==
    /\ upPc = "put"
    /\ putStatus' = code
    /\ upResult' = urlResponse.uploadId
    /\ upPc' = "returned"
    /\ UNCHANGED <<fileContent, urlRequest, urlResponse, putRequest,
                   pollVars, authVars, gvmVars, wizVars>>

PutRejects ==
    /\ upPc = "put"
    /\ upPc' = "threw"
    /\ UNCHANGED <<fileContent, urlRequest, urlResponse, putRequest, putStatus, upResult,
                   pollVars, authVars, gvmVars, wizVars>>

UpNext ==
    \/ \E c \in FileStates : FileChanges(c)
    \/ UploadStart
    \/ \E id \in UploadIds, url \in UploadUrls, kms \in KmsKeyArns :
         CreateUploadUrlResolves(id, url, kms)
    \/ CreateUploadUrlRejects
    \/ \E code \in PutStatuses : PutResolves(code)
    \/ PutRejects

UpSpec == UpInit /\ [][UpNext]_vars

(***************************************************************************)
(* Claims about uploadPayload                                              *)
(***************************************************************************)
\* The order of the steps of uploadPayload.
UpOrder ==
    {<<"start", "createUrl">>, <<"start", "threw">>, <<"createUrl", "put">>,
     <<"createUrl", "threw">>, <<"put", "returned">>, <<"put", "threw">>}

\* C17: uploadPayload goes checksum, createUploadUrl, upload: a PUT exists
\* only after createUploadUrl answered, goes to the URL of that answer and
\* carries the checksum of its own body; when the file is, at the upload,
\* what it was at the first checksum, the checksum header equals the
\* contentChecksum of the request; the uploadId of the answer is returned
\* only after the PUT completed; a call that threw returned no uploadId.
C17_UploadOrder ==
    /\ [](/\ urlResponse # NoResponse => urlRequest # ""
          /\ putRequest # NoPut =>
               /\ urlResponse # NoResponse
               /\ putRequest.url = urlResponse.uploadUrl
               /\ putRequest.headers.checksum = getSha256(putRequest.body)
          /\ putStatus # "" => putRequest # NoPut
          /\ upResult # "" =>
               (upPc = "returned" /\ putStatus # "" /\ upResult = urlResponse.uploadId)
          /\ upPc = "returned" => upResult # ""
          /\ upPc = "threw" => upResult = "")
    /\ [][(upPc = "createUrl" /\ upPc' = "put" /\ urlRequest = getSha256(fileContent))
            => putRequest'.headers.checksum = urlRequest]_vars
    /\ [][upPc' # upPc => <<upPc, upPc'>> \in UpOrder]_vars

\* C17 witness: an upload with a KMS key returned its uploadId, the file
\* unchanged between the two checksums.
C17_Witness ==
    /\ upPc = "returned"
    /\ upResult \in UploadIds
    /\ putRequest.headers.kmsKeyId # ""
    /\ putRequest.headers.checksum = urlRequest

\* The file changed between the two checksums: header and request differ.
C17_ChangedFile ==
    /\ upPc = "returned"
    /\ putRequest.headers.checksum # urlRequest

====
